---- MODULE Spec2Model ----
(***************************************************************************)
(* fcache: an in-process key/value cache with per-entry TTL, a background  *)
(* sweeper goroutine and gob snapshots (src/cache.go).                     *)
(*                                                                         *)
(* Callers are goroutines invoking the public methods of one *Cache; the   *)
(* sweeper is the goroutine started by NewCache.  A step of the model is   *)
(* what one goroutine does between two points where another goroutine can  *)
(* observe or interfere: a critical section under c.mu, a read of the      *)
(* clock taken outside the lock, a channel rendezvous.                     *)
(***************************************************************************)
EXTENDS Integers, FiniteSets, Sequences, TLC

\* src/cache.go:12-17
NoExpiration == -1
DefaultExpiration == 0

\* ---- bounds of the model ----
\* the clock runs from 1 to MaxTime (UnixNano is positive)
MaxTime == 3
Keys == {"a", "b"}
\* the nil interface value: what get returns for a miss, and a legal Object
Nil == "nil"
Values == {"V1", Nil}
\* durations a caller passes: both sentinels and a literal TTL
Durations == {NoExpiration, DefaultExpiration, 1}
\* the defaultExpiration values NewCache is called with
DefaultExps == {DefaultExpiration, 2}
Callers == {"c1", "c2"}

VARIABLES
    defaultExpiration,  \* Cache.defaultExpiration
    items,              \* Cache.items: a map, DOMAIN items is its key set
    mu,                 \* Cache.mu: TRUE while locked
    gc,                 \* position of the goroutine running gcLoop
    gcNow,              \* DeleteExpired's local `now` in the sweeper
    now,                \* the wall clock, time.Now().UnixNano()
    pc,                 \* pc[p]: position of caller p
    loc,                \* loc[p]: the locals of caller p's call in progress
    stream,             \* the byte stream Save writes and Load reads
    ret,                \* the call that returned in the last step, if any
    wr,                 \* history: the last write/removal of each key
    rt                  \* history: progress of a Save; Flush; Load sequence

vars == <<defaultExpiration, items, mu, gc, gcNow, now, pc, loc, stream, ret, wr, rt>>

\* ---- data ----
Item(v, e) == [Object |-> v, Expiration |-> e]
EmptyMap == [k \in {} |-> Item(Nil, 0)]
MapSet(m, k, it) == [x \in DOMAIN m \cup {k} |-> IF x = k THEN it ELSE m[x]]
MapDelete(m, k) == [x \in DOMAIN m \ {k} |-> m[x]]

\* Item.Expired(), read at clock value t
Expired(item, t) == item.Expiration > 0 /\ t > item.Expiration

\* ---- unlocked helpers of Cache ----
Miss == [val |-> Nil, ok |-> FALSE]
\* get without the Expired test
getUnexpired(m, k, t) ==
    IF k \notin DOMAIN m THEN Miss ELSE [val |-> m[k].Object, ok |-> TRUE]

get(m, k, t) ==
    IF k \notin DOMAIN m THEN Miss
    ELSE IF Expired(m[k], t) THEN Miss
    ELSE [val |-> m[k].Object, ok |-> TRUE]

\* set without the substitution of the default
setNoDefault(m, k, v, d, t) ==
    MapSet(m, k, Item(v, IF d > 0 THEN t + d ELSE 0))

set(m, k, v, d, t) ==
    LET d1 == IF d = DefaultExpiration THEN defaultExpiration ELSE d
        e  == IF d1 > 0 THEN t + d1 ELSE 0
    IN  MapSet(m, k, Item(v, e))

delete(m, k) == MapDelete(m, k)

\* the loop with now >= v.Expiration: an entry goes at its last live instant
SweepAtExpiry(m, t) ==
    LET dead == {k \in DOMAIN m : m[k].Expiration > 0 /\ t >= m[k].Expiration}
    IN  [x \in DOMAIN m \ dead |-> m[x]]

\* the loop without the Expiration > 0 test
SweepZero(m, t) ==
    [x \in {k \in DOMAIN m : ~(t > m[k].Expiration)} |-> m[x]]

\* the loop stopping after its first delete
SweepOne(m, t) ==
    LET dead == {k \in DOMAIN m : m[k].Expiration > 0 /\ t > m[k].Expiration}
    IN  IF dead = {} THEN m
        ELSE [x \in DOMAIN m \ {CHOOSE k \in dead : TRUE} |-> m[x]]

\* the loop of DeleteExpired over the map, with its local `now`
Sweep(m, t) ==
    LET dead == {k \in DOMAIN m : m[k].Expiration > 0 /\ t > m[k].Expiration}
    IN  [x \in DOMAIN m \ dead |-> m[x]]

\* a Lock that excludes nobody
NoLock == TRUE

\* sync.RWMutex.Lock / Unlock: Lock proceeds only when nobody holds the lock
CanLock == mu = FALSE

\* ---- results and locals ----
NoLoc == [k |-> "", v |-> Nil, d |-> 0, ok |-> FALSE, t |-> 0, m |-> EmptyMap]
Args(k, v, d, ok) == [NoLoc EXCEPT !.k = k, !.v = v, !.d = d, !.ok = ok]
\* ret: the call that returned in the last step, if any: the method, its
\* arguments k and d (m: the map Load decoded from its reader), the value
\* passed or returned, err = nil (found, for
\* Get) as ok, and Count's result n
Ret(op, k, v, d, ok, n) ==
    [op |-> op, k |-> k, v |-> v, d |-> d, ok |-> ok, n |-> n, m |-> EmptyMap]
NoRet == Ret("", "", Nil, 0, TRUE, 0)

\* ---- history ----
\* wr[k]: the value, the duration and the time of the last write of k through
\* set (by Set, Add or Update), until a Delete, a Flush or a Load replaces or
\* removes the entry; a sweep leaves wr alone. missed: a Get of k has
\* returned found = false on an expired entry, and no Set, Add or Load has
\* written k since
NoWrite == [written |-> FALSE, v |-> Nil, d |-> 0, t |-> 0, missed |-> FALSE]
Wrote(v, d, t) == [written |-> TRUE, v |-> v, d |-> d, t |-> t, missed |-> FALSE]
Unwritten(w) == [NoWrite EXCEPT !.missed = w.missed]
\* rt: "saved" after a Save that wrote the stream, with the store and its
\* live keys at that moment; "flushed" after a Flush right after it; "loaded"
\* after a Load of that stream right after that; "swept" after a caller's
\* DeleteExpired, with the time t it read, "swept2" after one that followed
\* another with no write, Load, Delete, Flush or sweep of the sweeper between
\* them; "none" after anything else that writes the store
NoRt == [phase |-> "none", live |-> {}, m |-> EmptyMap, t |-> 0]
Swept(r, t) ==
    [NoRt EXCEPT !.phase = IF r.phase \in {"swept", "swept2"} THEN "swept2" ELSE "swept",
                 !.t = t]

\* ---- the snapshot codec (encoding/gob) ----
\* gob writes a map as its entries and omits a struct field holding the zero
\* value; the decoder leaves an omitted field at zero
Encode(m) ==
    {IF m[k].Expiration = 0 THEN <<k, m[k].Object>>
                            ELSE <<k, m[k].Object, m[k].Expiration>> : k \in DOMAIN m}
\* a decoder that drops the Expiration field
DecodeNoExpiration(s) ==
    [k \in {e[1] : e \in s} |-> Item((CHOOSE x \in s : x[1] = k)[2], 0)]

Decode(s) ==
    [k \in {e[1] : e \in s} |->
        LET e == CHOOSE x \in s : x[1] = k
        IN  Item(e[2], IF Len(e) = 3 THEN e[3] ELSE 0)]
\* gob.Register(nil) panics: reflect.TypeOf(nil) is nil
Registers(m) == \A k \in DOMAIN m : m[k].Object # Nil

\* a merge in which the loaded entry always wins
MergeOverwrite(m, loaded, t) ==
    [k \in DOMAIN m \cup DOMAIN loaded |-> IF k \in DOMAIN loaded THEN loaded[k] ELSE m[k]]

\* a merge with the test inverted: install only over a live entry
MergeInverted(m, loaded, t) ==
    [k \in DOMAIN m |->
        IF k \in DOMAIN loaded /\ ~Expired(m[k], t) THEN loaded[k] ELSE m[k]]

\* the merge loop of Load
Merge(m, loaded, t) ==
    [k \in DOMAIN m \cup DOMAIN loaded |->
        IF k \in DOMAIN loaded /\ (k \notin DOMAIN m \/ Expired(m[k], t))
        THEN loaded[k] ELSE m[k]]
Installed(m, loaded, t) ==
    {k \in DOMAIN loaded : k \notin DOMAIN m \/ Expired(m[k], t)}

Init ==
    /\ defaultExpiration \in DefaultExps
    /\ items = EmptyMap
    /\ mu = FALSE
    /\ gc = "select"
    /\ gcNow = 0
    /\ now = 1
    /\ pc = [p \in Callers |-> "idle"]
    /\ loc = [p \in Callers |-> NoLoc]
    /\ stream = <<>>
    /\ ret = NoRet
    /\ wr = [k \in Keys |-> NoWrite]
    /\ rt = NoRt

\* time passes
Tick ==
    /\ now < MaxTime
    /\ now' = now + 1
    /\ ret' = NoRet
    /\ UNCHANGED <<defaultExpiration, items, mu, gc, gcNow, pc, loc, stream, wr, rt>>

\* Cache.Set: Lock; set; deferred Unlock
Set(p, k, v, d) ==
    /\ pc[p] = "idle"
    /\ CanLock
    /\ items' = set(items, k, v, d, now)
    /\ ret' = Ret("Set", k, v, d, TRUE, 0)
    /\ wr' = [wr EXCEPT ![k] = Wrote(v, d, now)]
    /\ rt' = NoRt
    /\ UNCHANGED <<defaultExpiration, mu, gc, gcNow, now, pc, loc, stream>>

\* Add testing for any entry, expired or not
AddLockAnyEntry(p, k, v, d) ==
    /\ pc[p] = "idle"
    /\ CanLock
    /\ mu' = TRUE
    /\ pc' = [pc EXCEPT ![p] = "Add"]
    /\ loc' = [loc EXCEPT ![p] = Args(k, v, d, k \in DOMAIN items)]
    /\ ret' = NoRet
    /\ UNCHANGED <<defaultExpiration, items, gc, gcNow, now, stream, wr, rt>>

\* Cache.Add, lines 76-77: Lock; get
AddLock(p, k, v, d) ==
    /\ pc[p] = "idle"
    /\ CanLock
    /\ mu' = TRUE
    /\ pc' = [pc EXCEPT ![p] = "Add"]
    /\ loc' = [loc EXCEPT ![p] = Args(k, v, d, get(items, k, now).ok)]
    /\ ret' = NoRet
    /\ UNCHANGED <<defaultExpiration, items, gc, gcNow, now, stream, wr, rt>>

\* Cache.Add, lines 78-81: the key is live: Unlock; return the error
AddErr(p) ==
    /\ pc[p] = "Add"
    /\ loc[p].ok
    /\ mu' = FALSE
    /\ pc' = [pc EXCEPT ![p] = "idle"]
    /\ loc' = [loc EXCEPT ![p] = NoLoc]
    /\ ret' = Ret("Add", loc[p].k, loc[p].v, loc[p].d, FALSE, 0)
    /\ UNCHANGED <<defaultExpiration, items, gc, gcNow, now, stream, wr, rt>>

\* Cache.Add, lines 82-84: set; Unlock; return nil
AddSet(p) ==
    /\ pc[p] = "Add"
    /\ ~loc[p].ok
    /\ items' = set(items, loc[p].k, loc[p].v, loc[p].d, now)
    /\ mu' = FALSE
    /\ pc' = [pc EXCEPT ![p] = "idle"]
    /\ loc' = [loc EXCEPT ![p] = NoLoc]
    /\ ret' = Ret("Add", loc[p].k, loc[p].v, loc[p].d, TRUE, 0)
    /\ wr' = [wr EXCEPT ![loc[p].k] = Wrote(loc[p].v, loc[p].d, now)]
    /\ rt' = NoRt
    /\ UNCHANGED <<defaultExpiration, gc, gcNow, now, stream>>

\* Get deleting the expired entry it finds
GetPurging(p, k) ==
    /\ pc[p] = "idle"
    /\ CanLock
    /\ items' = IF k \in DOMAIN items /\ Expired(items[k], now)
                THEN delete(items, k) ELSE items
    /\ ret' = Ret("Get", k, get(items, k, now).val, 0, get(items, k, now).ok, 0)
    /\ wr' = IF k \in DOMAIN items /\ ~get(items, k, now).ok
             THEN [wr EXCEPT ![k].missed = TRUE] ELSE wr
    /\ UNCHANGED <<defaultExpiration, mu, gc, gcNow, now, pc, loc, stream, rt>>

\* Cache.Get: Lock; get; deferred Unlock
Get(p, k) ==
    /\ pc[p] = "idle"
    /\ CanLock
    /\ ret' = Ret("Get", k, get(items, k, now).val, 0, get(items, k, now).ok, 0)
    /\ wr' = IF k \in DOMAIN items /\ ~get(items, k, now).ok
             THEN [wr EXCEPT ![k].missed = TRUE] ELSE wr
    /\ UNCHANGED <<defaultExpiration, items, mu, gc, gcNow, now, pc, loc, stream, rt>>

\* Update testing for any entry, expired or not
UpdateLockAnyEntry(p, k, v, d) ==
    /\ pc[p] = "idle"
    /\ CanLock
    /\ mu' = TRUE
    /\ pc' = [pc EXCEPT ![p] = "Update"]
    /\ loc' = [loc EXCEPT ![p] = Args(k, v, d, k \in DOMAIN items)]
    /\ ret' = NoRet
    /\ UNCHANGED <<defaultExpiration, items, gc, gcNow, now, stream, wr, rt>>

\* Cache.Update, lines 105-106: Lock; get
UpdateLock(p, k, v, d) ==
    /\ pc[p] = "idle"
    /\ CanLock
    /\ mu' = TRUE
    /\ pc' = [pc EXCEPT ![p] = "Update"]
    /\ loc' = [loc EXCEPT ![p] = Args(k, v, d, get(items, k, now).ok)]
    /\ ret' = NoRet
    /\ UNCHANGED <<defaultExpiration, items, gc, gcNow, now, stream, wr, rt>>

\* Update with an Unlock on line 108: the error is returned
UpdateUnlock(p) ==
    /\ pc[p] = "Update"
    /\ ~loc[p].ok
    /\ mu' = FALSE
    /\ pc' = [pc EXCEPT ![p] = "idle"]
    /\ loc' = [loc EXCEPT ![p] = NoLoc]
    /\ ret' = Ret("Update", loc[p].k, loc[p].v, loc[p].d, FALSE, 0)
    /\ UNCHANGED <<defaultExpiration, items, gc, gcNow, now, stream, wr, rt>>

\* Cache.Update, lines 107-108: no live entry: c.mu.Lock() a second time.
\* The goroutine holds the write lock itself, and RWMutex is not reentrant:
\* it parks in Lock, and line 109 is reached only if the lock is ever freed.
UpdateRelock(p) ==
    /\ pc[p] = "Update"
    /\ ~loc[p].ok
    /\ pc' = [pc EXCEPT ![p] = "Update_Lock"]
    /\ ret' = NoRet
    /\ UNCHANGED <<defaultExpiration, items, mu, gc, gcNow, now, loc, stream, wr, rt>>

\* Cache.Update, lines 111-113: set; Unlock; return nil
UpdateSet(p) ==
    /\ pc[p] = "Update"
    /\ loc[p].ok
    /\ items' = set(items, loc[p].k, loc[p].v, loc[p].d, now)
    /\ mu' = FALSE
    /\ pc' = [pc EXCEPT ![p] = "idle"]
    /\ loc' = [loc EXCEPT ![p] = NoLoc]
    /\ ret' = Ret("Update", loc[p].k, loc[p].v, loc[p].d, TRUE, 0)
    /\ wr' = [wr EXCEPT ![loc[p].k] =
                [Wrote(loc[p].v, loc[p].d, now) EXCEPT !.missed = wr[loc[p].k].missed]]
    /\ rt' = NoRt
    /\ UNCHANGED <<defaultExpiration, gc, gcNow, now, stream>>

\* Cache.Inc, lines 117-118: Lock; get
IncLock(p, k) ==
    /\ pc[p] = "idle"
    /\ CanLock
    /\ mu' = TRUE
    /\ pc' = [pc EXCEPT ![p] = "Inc"]
    /\ loc' = [loc EXCEPT ![p] = Args(k, Nil, 0, get(items, k, now).ok)]
    /\ ret' = NoRet
    /\ UNCHANGED <<defaultExpiration, items, gc, gcNow, now, stream, wr, rt>>

\* Cache.Inc, lines 119-120: no live entry: c.mu.Lock() a second time, as Update
IncRelock(p) ==
    /\ pc[p] = "Inc"
    /\ ~loc[p].ok
    /\ pc' = [pc EXCEPT ![p] = "Inc_Lock"]
    /\ ret' = NoRet
    /\ UNCHANGED <<defaultExpiration, items, mu, gc, gcNow, now, loc, stream, wr, rt>>

\* Cache.Inc, lines 123-125: Unlock; return nil (the set is commented out)
IncOk(p) ==
    /\ pc[p] = "Inc"
    /\ loc[p].ok
    /\ mu' = FALSE
    /\ pc' = [pc EXCEPT ![p] = "idle"]
    /\ loc' = [loc EXCEPT ![p] = NoLoc]
    /\ ret' = Ret("Inc", loc[p].k, Nil, 0, TRUE, 0)
    /\ UNCHANGED <<defaultExpiration, items, gc, gcNow, now, stream, wr, rt>>

\* Delete going through get: an expired entry is left in the map
DeleteIfLive(p, k) ==
    /\ pc[p] = "idle"
    /\ CanLock
    /\ items' = IF get(items, k, now).ok THEN delete(items, k) ELSE items
    /\ ret' = Ret("Delete", k, Nil, 0, TRUE, 0)
    /\ wr' = [wr EXCEPT ![k] = Unwritten(wr[k])]
    /\ rt' = NoRt
    /\ UNCHANGED <<defaultExpiration, mu, gc, gcNow, now, pc, loc, stream>>

\* Cache.Delete: Lock; delete; Unlock
Delete(p, k) ==
    /\ pc[p] = "idle"
    /\ CanLock
    /\ items' = delete(items, k)
    /\ ret' = Ret("Delete", k, Nil, 0, TRUE, 0)
    /\ wr' = [wr EXCEPT ![k] = Unwritten(wr[k])]
    /\ rt' = NoRt
    /\ UNCHANGED <<defaultExpiration, mu, gc, gcNow, now, pc, loc, stream>>

\* Count returning the number of live entries
CountLive(p) ==
    /\ pc[p] = "idle"
    /\ CanLock
    /\ ret' = Ret("Count", "", Nil, 0, TRUE,
                  Cardinality({k \in DOMAIN items : get(items, k, now).ok}))
    /\ UNCHANGED <<defaultExpiration, items, mu, gc, gcNow, now, pc, loc, stream, wr, rt>>

\* Cache.Count: Lock; len(c.items); deferred Unlock
Count(p) ==
    /\ pc[p] = "idle"
    /\ CanLock
    /\ ret' = Ret("Count", "", Nil, 0, TRUE, Cardinality(DOMAIN items))
    /\ UNCHANGED <<defaultExpiration, items, mu, gc, gcNow, now, pc, loc, stream, wr, rt>>

\* Flush dropping only what has expired
FlushExpired(p) ==
    /\ pc[p] = "idle"
    /\ CanLock
    /\ items' = Sweep(items, now)
    /\ ret' = Ret("Flush", "", Nil, 0, TRUE, 0)
    /\ wr' = [k \in Keys |-> Unwritten(wr[k])]
    /\ rt' = IF rt.phase = "saved" THEN [rt EXCEPT !.phase = "flushed"] ELSE NoRt
    /\ UNCHANGED <<defaultExpiration, mu, gc, gcNow, now, pc, loc, stream>>

\* Cache.Flush: Lock; a fresh map; deferred Unlock
Flush(p) ==
    /\ pc[p] = "idle"
    /\ CanLock
    /\ items' = EmptyMap
    /\ ret' = Ret("Flush", "", Nil, 0, TRUE, 0)
    /\ wr' = [k \in Keys |-> Unwritten(wr[k])]
    /\ rt' = IF rt.phase = "saved" THEN [rt EXCEPT !.phase = "flushed"] ELSE NoRt
    /\ UNCHANGED <<defaultExpiration, mu, gc, gcNow, now, pc, loc, stream>>

\* Cache.Save: Lock; gob.Register every Object; Encode; deferred Unlock.
\* A panic in Register runs the deferred Unlock, then the recover: the error
\* is returned and nothing was written.
Save(p) ==
    /\ pc[p] = "idle"
    /\ CanLock
    /\ IF Registers(items)
       THEN /\ stream' = <<Encode(items)>>
            /\ ret' = Ret("Save", "", Nil, 0, TRUE, 0)
            /\ rt' = [NoRt EXCEPT !.phase = "saved",
                                   !.live = {k \in Keys : get(items, k, now).ok},
                                   !.m = items]
       ELSE /\ stream' = stream
            /\ ret' = Ret("Save", "", Nil, 0, FALSE, 0)
            /\ rt' = NoRt
    /\ UNCHANGED <<defaultExpiration, items, mu, gc, gcNow, now, pc, loc, wr>>

\* Cache.Load, lines 163-168, on a reader holding r: Decode fails on a reader
\* with no bytes and Load returns the error before it touches the lock
LoadErr(p, r) ==
    /\ pc[p] = "idle"
    /\ r = <<>>
    /\ ret' = Ret("Load", "", Nil, 0, FALSE, 0)
    /\ UNCHANGED <<defaultExpiration, items, mu, gc, gcNow, now, pc, loc, stream, wr, rt>>

\* Cache.Load, lines 163-168: the map is decoded before the lock is taken
LoadDecode(p, r) ==
    /\ pc[p] = "idle"
    /\ r # <<>>
    /\ pc' = [pc EXCEPT ![p] = "Load"]
    /\ loc' = [loc EXCEPT ![p] = [NoLoc EXCEPT !.m = Decode(r[1])]]
    /\ ret' = NoRet
    /\ UNCHANGED <<defaultExpiration, items, mu, gc, gcNow, now, stream, wr, rt>>

\* Cache.Load, lines 169-177: Lock; merge; deferred Unlock
LoadMerge(p) ==
    /\ pc[p] = "Load"
    /\ CanLock
    /\ items' = Merge(items, loc[p].m, now)
    /\ pc' = [pc EXCEPT ![p] = "idle"]
    /\ loc' = [loc EXCEPT ![p] = NoLoc]
    /\ ret' = [Ret("Load", "", Nil, 0, TRUE, 0) EXCEPT !.m = loc[p].m]
    /\ wr' = [k \in Keys |->
                IF k \in Installed(items, loc[p].m, now) THEN NoWrite ELSE wr[k]]
    /\ rt' = IF rt.phase = "flushed" /\ stream # <<>> /\ loc[p].m = Decode(stream[1])
             THEN [rt EXCEPT !.phase = "loaded"] ELSE NoRt
    /\ UNCHANGED <<defaultExpiration, mu, gc, gcNow, now, stream>>

\* Cache.DeleteExpired called by a caller, line 40: it reads the clock before
\* it asks for the lock
DeleteExpiredNow(p) ==
    /\ pc[p] = "idle"
    /\ pc' = [pc EXCEPT ![p] = "DeleteExpired"]
    /\ loc' = [loc EXCEPT ![p] = [NoLoc EXCEPT !.t = now]]
    /\ ret' = NoRet
    /\ UNCHANGED <<defaultExpiration, items, mu, gc, gcNow, now, stream, wr, rt>>

\* Cache.DeleteExpired, lines 41-48: Lock; the loop; deferred Unlock
DeleteExpired(p) ==
    /\ pc[p] = "DeleteExpired"
    /\ CanLock
    /\ items' = Sweep(items, loc[p].t)
    /\ pc' = [pc EXCEPT ![p] = "idle"]
    /\ loc' = [loc EXCEPT ![p] = NoLoc]
    /\ ret' = Ret("DeleteExpired", "", Nil, 0, TRUE, 0)
    /\ rt' = Swept(rt, loc[p].t)
    /\ UNCHANGED <<defaultExpiration, mu, gc, gcNow, now, stream, wr>>

\* Cache.StopGc: the send on the unbuffered channel parks the caller until
\* the sweeper receives
StopGc(p) ==
    /\ pc[p] = "idle"
    /\ pc' = [pc EXCEPT ![p] = "StopGc"]
    /\ ret' = NoRet
    /\ UNCHANGED <<defaultExpiration, items, mu, gc, gcNow, now, loc, stream, wr, rt>>

\* ---- the sweeper goroutine: gcLoop ----
\* case <-ticker.C: DeleteExpired reads the clock (line 40), then asks for the lock
gcLoopTick ==
    /\ gc = "select"
    /\ gc' = "DeleteExpired"
    /\ gcNow' = now
    /\ ret' = NoRet
    /\ UNCHANGED <<defaultExpiration, items, mu, now, pc, loc, stream, wr, rt>>

\* DeleteExpired, lines 41-48: Lock; the loop; deferred Unlock; back to select
gcLoopSweep ==
    /\ gc = "DeleteExpired"
    /\ CanLock
    /\ items' = Sweep(items, gcNow)
    /\ gc' = "select"
    /\ gcNow' = 0
    /\ rt' = NoRt
    /\ ret' = NoRet
    /\ UNCHANGED <<defaultExpiration, mu, now, pc, loc, stream, wr>>

\* case <-c.stopGc: the rendezvous with a caller parked in StopGc; return
gcLoopStop(p) ==
    /\ gc = "select"
    /\ pc[p] = "StopGc"
    /\ gc' = "exited"
    /\ pc' = [pc EXCEPT ![p] = "idle"]
    /\ ret' = Ret("StopGc", "", Nil, 0, TRUE, 0)
    /\ UNCHANGED <<defaultExpiration, items, mu, gcNow, now, loc, stream, wr, rt>>

\* ---- specifications ----
\* readers handed to Load that no Save of this run wrote
SampleStreams ==
    { <<>>,
      <<{<<"a", "V1">>}>>,
      <<{<<"a", Nil, 2>>, <<"b", "V1", 4>>}>> }

OneCaller == {"c1"}

\* the operations that hold the lock across a check and a write
LockedOp(p) ==
    \/ \E k \in Keys, v \in Values, d \in Durations : AddLock(p, k, v, d)
    \/ AddErr(p)
    \/ AddSet(p)
    \/ \E k \in Keys, v \in Values, d \in Durations : UpdateLock(p, k, v, d)
    \/ UpdateRelock(p)
    \/ UpdateSet(p)
    \/ \E k \in Keys : IncLock(p, k)
    \/ IncRelock(p)
    \/ IncOk(p)

\* the store operations of one caller
StoreOp(p) ==
    \/ \E k \in Keys, v \in Values, d \in Durations : Set(p, k, v, d)
    \/ \E k \in Keys : Get(p, k)
    \/ \E k \in Keys : Delete(p, k)
    \/ Count(p)
    \/ Flush(p)

Sweeper ==
    \/ gcLoopTick
    \/ gcLoopSweep

\* one caller of every store operation, Load of outside snapshots, the sweeper
Next ==
    \/ Tick
    \/ \E p \in OneCaller : StoreOp(p)
    \/ \E p \in OneCaller : LockedOp(p)
    \/ \E p \in OneCaller, r \in SampleStreams : LoadErr(p, r)
    \/ \E p \in OneCaller, r \in SampleStreams : LoadDecode(p, r)
    \/ \E p \in OneCaller : LoadMerge(p)
    \/ Sweeper

Spec == Init /\ [][Next]_vars

\* concurrent callers racing for the lock, and the sweeper
ConcNext ==
    \/ Tick
    \/ \E p \in Callers : LockedOp(p)
    \/ \E p \in Callers, k \in Keys, v \in Values, d \in Durations : Set(p, k, v, d)
    \/ \E p \in Callers, k \in Keys : Get(p, k)
    \/ \E p \in Callers, k \in Keys : Delete(p, k)
    \/ Sweeper

ConcSpec == Init /\ [][ConcNext]_vars

\* one caller saving to and loading from the same stream, and the sweeper
SnapNext ==
    \/ Tick
    \/ \E p \in OneCaller, k \in Keys, v \in Values, d \in Durations : Set(p, k, v, d)
    \/ \E p \in OneCaller, k \in Keys : Get(p, k)
    \/ \E p \in OneCaller : Flush(p)
    \/ \E p \in OneCaller : Save(p)
    \/ \E p \in OneCaller : LoadErr(p, stream)
    \/ \E p \in OneCaller : LoadDecode(p, stream)
    \/ \E p \in OneCaller : LoadMerge(p)
    \/ Sweeper

SnapSpec == Init /\ [][SnapNext]_vars

\* callers stopping the sweeper
GcNext ==
    \/ Tick
    \/ \E p \in Callers, k \in Keys, v \in Values, d \in Durations : Set(p, k, v, d)
    \/ \E p \in Callers : Count(p)
    \/ \E p \in Callers : StopGc(p)
    \/ \E p \in Callers : gcLoopStop(p)
    \/ Sweeper

GcSpec == Init /\ [][GcNext]_vars

\* one caller that writes, reads and sweeps by hand, beside the sweeper
SweepNext ==
    \/ \E p \in OneCaller :
          \/ \E k \in Keys, v \in Values, d \in Durations : Set(p, k, v, d)
          \/ \E k \in Keys : Get(p, k) \/ Delete(p, k)
          \/ DeleteExpiredNow(p)
          \/ DeleteExpired(p)
    \/ gcLoopTick
    \/ gcLoopSweep
    \/ Tick
SweepSpec == Init /\ [][SweepNext]_vars

\* one caller that writes and stops the sweeper, another that updates, and
\* the sweeper. The scheduler runs every goroutine that can run, the ticker
\* keeps firing, a goroutine waiting in Lock gets the lock once it is free
\* often enough (the mutex hands it over to the longest waiter), and select
\* takes a case that stays ready
Stopper == "c1"
Updater == "c2"
FairNext ==
    \/ \E k \in Keys, v \in Values, d \in Durations :
          \/ Set(Stopper, k, v, d)
          \/ UpdateLock(Updater, k, v, d)
    \/ UpdateRelock(Updater)
    \/ UpdateSet(Updater)
    \/ StopGc(Stopper)
    \/ Sweeper
    \/ gcLoopStop(Stopper)
    \/ Tick
FairSpec ==
    /\ Init
    /\ [][FairNext]_vars
    /\ WF_vars(UpdateRelock(Updater))
    /\ WF_vars(UpdateSet(Updater))
    /\ SF_vars(gcLoopTick)
    /\ SF_vars(gcLoopSweep)
    /\ SF_vars(gcLoopStop(Stopper))

\* ---- the claims ----
\* a live entry: present and not expired at time t
Live(m, k, t) == k \in DOMAIN m /\ ~(m[k].Expiration > 0 /\ t > m[k].Expiration)
\* every key but k has the same entry, or none, in m1 and m2
SameButFor(m1, m2, k) ==
    \A j \in Keys \ {k} :
        /\ j \in DOMAIN m1 <=> j \in DOMAIN m2
        /\ j \in DOMAIN m1 => m1[j] = m2[j]

\* C1: a Get of a key last written with a literal duration d > 0 at time t,
\* and not deleted, flushed or replaced by a Load since, returns the written
\* value with found = true while now <= t + d and (nil, false) once
\* now > t + d, swept or not.
C1_TtlCorrect ==
    \A k \in Keys :
        (ret.op = "Get" /\ ret.k = k /\ wr[k].written /\ wr[k].d > 0) =>
            IF now <= wr[k].t + wr[k].d
            THEN ret.ok /\ ret.v = wr[k].v
            ELSE ~ret.ok /\ ret.v = Nil

\* a Get misses a key whose TTL has passed while its entry is still stored
C1_Witness ==
    /\ ret.op = "Get" /\ ~ret.ok
    /\ wr[ret.k].written /\ wr[ret.k].d > 0
    /\ now > wr[ret.k].t + wr[ret.k].d
    /\ ret.k \in DOMAIN items

\* C6: a key last written with NoExpiration, or with DefaultExpiration while
\* defaultExpiration <= 0, and not deleted, flushed or overwritten since, is
\* stored with Expiration = 0, stays in the store through every sweep, and
\* every Get of it returns the written value with found = true.
C6_NeverExpires ==
    \A k \in Keys :
        ( /\ wr[k].written
          /\ \/ wr[k].d = NoExpiration
             \/ wr[k].d = DefaultExpiration /\ defaultExpiration <= 0 ) =>
            /\ k \in DOMAIN items
            /\ items[k] = Item(wr[k].v, 0)
            /\ (ret.op = "Get" /\ ret.k = k) => (ret.ok /\ ret.v = wr[k].v)

\* a Get finds a never-expiring key at the end of the clock, after a sweep
\* that removed the other key
C6_Witness ==
    /\ ret.op = "Get" /\ ret.ok
    /\ wr[ret.k].written /\ wr[ret.k].d = NoExpiration /\ wr[ret.k].t = 1
    /\ now = MaxTime
    /\ \E j \in Keys \ {ret.k} : wr[j].written /\ j \notin DOMAIN items

\* C9: a Set returns no error and leaves under its key the value with
\* Expiration = now + d1 if d1 > 0 and 0 otherwise, d1 being defaultExpiration
\* when d = DefaultExpiration and d otherwise; every other key is untouched.
C9_SetStores ==
    [][ret'.op = "Set" =>
        LET k  == ret'.k
            d1 == IF ret'.d = DefaultExpiration THEN defaultExpiration ELSE ret'.d
            e  == IF d1 > 0 THEN now + d1 ELSE 0
        IN  /\ ret'.ok
            /\ k \in DOMAIN items'
            /\ items'[k] = Item(ret'.v, e)
            /\ SameButFor(items, items', k)]_vars

\* a Set with DefaultExpiration under a positive default, beside another key
C9_Witness ==
    /\ ret.op = "Set" /\ ret.d = DefaultExpiration /\ defaultExpiration > 0
    /\ items[ret.k].Expiration = now + defaultExpiration
    /\ \E j \in Keys \ {ret.k} : j \in DOMAIN items

\* C10: Count returns the number of stored entries, the live ones and the
\* expired ones not swept yet.
C10_CountRaw ==
    ret.op = "Count" =>
        ret.n = Cardinality({k \in Keys : Live(items, k, now)})
              + Cardinality({k \in Keys : k \in DOMAIN items /\ ~Live(items, k, now)})

\* Count includes two keys that a Get would both miss
C10_Witness ==
    /\ ret.op = "Count" /\ ret.n = 2
    /\ \A k \in Keys : wr[k].written /\ ~get(items, k, now).ok

\* the Expiration the claims give a write of duration d at time t
Resolved(d) == IF d = DefaultExpiration THEN defaultExpiration ELSE d
ExpirationOf(d, t) == IF Resolved(d) > 0 THEN t + Resolved(d) ELSE 0

\* C2: an Add that finds a live entry under its key returns the error and
\* leaves the store as it was; an Add that finds the key absent or expired
\* returns nil and stores its value as Set would, other keys untouched. The
\* store does not change between Add's test and its return.
C2_AddContract ==
    [][\A p \in Callers :
        /\ (pc[p] = "idle" /\ pc'[p] = "Add") =>
              (loc'[p].ok <=> Live(items, loc'[p].k, now))
        /\ (pc[p] = "Add" /\ pc'[p] = "Add") => items' = items
        /\ (pc[p] = "Add" /\ pc'[p] = "idle" /\ loc[p].ok) =>
              (ret'.op = "Add" /\ ~ret'.ok /\ items' = items)
        /\ (pc[p] = "Add" /\ pc'[p] = "idle" /\ ~loc[p].ok) =>
              /\ ret'.op = "Add" /\ ret'.ok
              /\ loc[p].k \in DOMAIN items'
              /\ items'[loc[p].k] = Item(loc[p].v, ExpirationOf(loc[p].d, now))
              /\ SameButFor(items, items', loc[p].k)]_vars

\* an Add has just failed on a live key holding another value
C2_Witness ==
    /\ ret.op = "Add" /\ ~ret.ok
    /\ Live(items, ret.k, now)
    /\ items[ret.k].Object # ret.v

\* C3 as stated: an Update that finds no live entry returns KeyNotFound to its
\* caller, so no caller stays parked in Update's second Lock, holding the lock
\* it waits for.
C3_UpdateMissReturns == \A p \in Callers : pc[p] # "Update_Lock"

\* C4: Load installs the decoded entry of a key exactly when the store has no
\* live entry under it; a key with a live entry, and a key not in the
\* snapshot, keep what they had.
C4_LoadMerge ==
    [][\A p \in Callers :
        (pc[p] = "Load" /\ pc'[p] = "idle") =>
            \A k \in Keys :
                IF k \in DOMAIN loc[p].m /\ ~Live(items, k, now)
                THEN k \in DOMAIN items' /\ items'[k] = loc[p].m[k]
                ELSE /\ k \in DOMAIN items' <=> k \in DOMAIN items
                     /\ k \in DOMAIN items => items'[k] = items[k]]_vars

\* a Load has returned with a live entry kept against a different loaded one
C4_Witness ==
    /\ ret.op = "Load" /\ ret.ok
    /\ \E k \in DOMAIN ret.m : Live(items, k, now) /\ items[k] # ret.m[k]

\* C5: right after Save; Flush; Load of the saved stream, every key live at
\* Save time is stored with the entry it had then, and no key that was not
\* live at Save time is found by Get.
C5_RoundTrip ==
    rt.phase = "loaded" =>
        /\ \A k \in rt.live : k \in DOMAIN items /\ items[k] = rt.m[k]
        /\ \A k \in Keys : get(items, k, now).ok => k \in rt.live
        /\ (ret.op = "Get" /\ ret.ok) => ret.k \in rt.live

\* a round trip of a store holding a live key with a TTL and an expired key
C5_Witness ==
    /\ rt.phase = "loaded" /\ ret.op = "Load"
    /\ \E k \in rt.live : items[k].Expiration > 0
    /\ DOMAIN rt.m \ rt.live # {}

\* C7 as stated: a StopGc made after the sweeper has exited returns, so no
\* caller is parked in StopGc's send once nobody is left to receive.
C7_StopGcReturns == \A p \in Callers : pc[p] = "StopGc" => gc # "exited"

\* the last write of k stored an entry that has not expired
WroteLive(k) ==
    wr[k].written /\ (Resolved(wr[k].d) <= 0 \/ now <= wr[k].t + Resolved(wr[k].d))
InCritical(p) == pc[p] \in {"Add", "Update", "Update_Lock", "Inc", "Inc_Lock"}

\* C8: at most one caller is between its Lock and its Unlock, the store does
\* not change under a caller inside Add except by its own write, an Add
\* never succeeds on a key that holds a live entry as it returns and always
\* succeeds on an absent key: of two Adds of a key whose written entry has
\* not expired, the second returns the error and the stored value stays the
\* first one's.
C8_AddAtomic ==
    /\ [](Cardinality({p \in Callers : InCritical(p)}) <= 1)
    /\ [][\A p \in Callers :
            /\ (pc[p] = "Add" /\ pc'[p] = "Add") => items' = items
            /\ (pc[p] = "Add" /\ pc'[p] = "idle") =>
                  /\ ret'.op = "Add"
                  /\ ret'.ok => ~Live(items, loc[p].k, now)
                  /\ loc[p].k \notin DOMAIN items => ret'.ok
                  /\ ~ret'.ok => (items' = items /\ wr' = wr)
                  /\ WroteLive(loc[p].k) => ~ret'.ok
                  /\ ret'.ok => items'[loc[p].k].Object = loc[p].v]_vars

\* an Add has just failed on a key that a call of the other value won
C8_Witness ==
    /\ ret.op = "Add" /\ ~ret.ok
    /\ WroteLive(ret.k)
    /\ wr[ret.k].v # ret.v
    /\ items[ret.k].Object = wr[ret.k].v

\* C11: right after Flush has returned the store is empty, so that Count is 0
\* and Get finds no key, and it stays so until the next write or Load; seen
\* on the Flush that follows a Save, whose record keeps what the store held
C11_FlushEmpties ==
    /\ ret.op = "Flush" =>
          /\ Cardinality(DOMAIN items) = 0
          /\ \A k \in Keys : ~get(items, k, now).ok
    /\ rt.phase = "flushed" =>
          /\ Cardinality(DOMAIN items) = 0
          /\ (ret.op = "Get" => ~ret.ok)

\* a Flush has just emptied a store that held a live entry and one that
\* never expires or had expired
C11_Witness ==
    /\ ret.op = "Flush"
    /\ rt.phase = "flushed"
    /\ items = EmptyMap
    /\ \E k \in DOMAIN rt.m : rt.m[k].Expiration > 0 /\ ~Expired(rt.m[k], now)
    /\ \E k \in DOMAIN rt.m : rt.m[k].Expiration = 0 \/ Expired(rt.m[k], now)

\* C12: Delete(key) leaves the store without key, whether the entry was live,
\* expired or absent, reports no error, leaves every other entry as it was,
\* and a Get of key then misses
C12_DeleteFrame ==
    [][ret'.op = "Delete" =>
          /\ ret'.ok
          /\ ret'.k \notin DOMAIN items'
          /\ items' = [j \in DOMAIN items \ {ret'.k} |-> items[j]]
          /\ ~get(items', ret'.k, now').ok]_vars

\* a Delete has just returned and the other key, already expired, is still
\* stored
C12_Witness ==
    /\ ret.op = "Delete"
    /\ ret.k \notin DOMAIN items
    /\ \E j \in DOMAIN items : j # ret.k /\ Expired(items[j], now)

\* C13: the lock is held only by a caller between the Lock and the Unlock of
\* its call, so that every call that is over has left the lock free
C13_LockReleased ==
    mu => \E p \in Callers : pc[p] \in {"Add", "Update", "Inc"}

\* C14 as written, for Add: an Add on a key with a live entry never returns
\* its error
C14_AddDeadlocks ==
    ~(ret.op = "Add" /\ ~ret.ok)

\* C14: Update and Inc on a key with no live entry ask for the lock a second
\* time while they hold it, and stay there with the lock held: neither ever
\* returns an error; Add on a key with a live entry releases the lock and
\* returns its error
C14_Relock ==
    /\ [](\A p \in Callers : pc[p] \in {"Update_Lock", "Inc_Lock"} => mu)
    /\ [](ret.op \in {"Update", "Inc"} => ret.ok)
    /\ [][\A p \in Callers :
            /\ pc[p] \in {"Update_Lock", "Inc_Lock"} => (pc'[p] = pc[p] /\ mu')
            /\ (pc[p] = "Update" /\ ~loc[p].ok /\ pc'[p] # pc[p])
                  => (pc'[p] = "Update_Lock" /\ mu')
            /\ (pc[p] = "Inc" /\ ~loc[p].ok /\ pc'[p] # pc[p])
                  => (pc'[p] = "Inc_Lock" /\ mu')
            /\ (pc[p] = "Add" /\ loc[p].ok /\ pc'[p] # pc[p])
                  => (ret'.op = "Add" /\ ~ret'.ok /\ ~mu' /\ pc'[p] = "idle")]_vars

\* one caller is parked in the second Lock of Update or Inc, the sweeper and
\* the other caller wait behind it
C14_Witness ==
    /\ mu
    /\ gc = "DeleteExpired"
    /\ \E p, q \in Callers :
          /\ pc[p] \in {"Update_Lock", "Inc_Lock"}
          /\ pc[q] = "idle"

\* a step of the sweeper that ends DeleteExpired
SweepStep == gc = "DeleteExpired" /\ gc' = "select"

\* C15 as written, with the time the loop runs at: a sweep removes exactly
\* the entries that have expired by then
C15_SweepsAtLockTime ==
    [][SweepStep =>
          DOMAIN items' = {k \in DOMAIN items :
                             ~(items[k].Expiration > 0 /\ items[k].Expiration < now)}]_vars

\* C15: a sweep removes exactly the entries with Expiration > 0 and
\* Expiration < the time DeleteExpired read on entry, before it took the
\* lock, and leaves every other entry as it was; it removes no entry that a
\* Get at the time of the removal finds (Expiration not yet passed), and no
\* entry with Expiration = 0
C15_SweepExact ==
    [][SweepStep =>
          /\ gcNow <= now
          /\ DOMAIN items' = {k \in DOMAIN items :
                                ~(items[k].Expiration > 0 /\ items[k].Expiration < gcNow)}
          /\ \A k \in DOMAIN items' : items'[k] = items[k]
          /\ \A k \in DOMAIN items :
                (items[k].Expiration >= now \/ items[k].Expiration = 0) => k \in DOMAIN items']_vars

\* a sweep has removed one written key and kept the other, which never
\* expires or has not expired
C15_Witness ==
    /\ gc = "select"
    /\ \E k, j \in Keys :
          /\ wr[k].written /\ k \notin DOMAIN items
          /\ j \in DOMAIN items /\ ~Expired(items[j], now)

\* C19: Get and Count change nothing: the store, and with it the result of
\* Count, is the same after the call as before, and a Get of an expired
\* entry reports it missing and leaves it stored
C19_PureReads ==
    [][ret'.op \in {"Get", "Count"} =>
          /\ items' = items
          /\ Cardinality(DOMAIN items') = Cardinality(DOMAIN items)
          /\ UNCHANGED <<mu, pc, loc, stream, defaultExpiration>>
          /\ (ret'.op = "Get" /\ ret'.k \in DOMAIN items /\ Expired(items[ret'.k], now))
                => (~ret'.ok /\ ret'.k \in DOMAIN items')]_vars

\* a Get has just missed an expired entry, which is still stored
C19_Witness ==
    /\ ret.op = "Get" /\ ~ret.ok
    /\ ret.k \in DOMAIN items
    /\ Expired(items[ret.k], now)
    /\ Cardinality(DOMAIN items) = Cardinality(Keys)

\* C16 as written: a DeleteExpired that follows a DeleteExpired, with no
\* write, Load, Delete or Flush between the two, removes nothing
C16_SecondSweepNoop ==
    [][(ret'.op = "DeleteExpired" /\ rt.phase \in {"swept", "swept2"}) =>
          items' = items]_vars

\* C16: a DeleteExpired that follows a DeleteExpired, with no write, Load,
\* Delete or Flush between the two, removes only entries whose Expiration
\* the clock passed between the two reads of the clock, and nothing when
\* both calls read the same time
C16_SweepIdempotent ==
    [][\A p \in Callers :
          (pc[p] = "DeleteExpired" /\ ret'.op = "DeleteExpired"
              /\ rt.phase \in {"swept", "swept2"}) =>
             /\ \A k \in DOMAIN items \ DOMAIN items' :
                    rt.t <= items[k].Expiration /\ items[k].Expiration < loc[p].t
             /\ \A k \in DOMAIN items' : items'[k] = items[k]
             /\ loc[p].t = rt.t => items' = items]_vars

\* a second DeleteExpired in a row has just returned, an entry that the
\* first one removed is gone and an expired entry is in the store no more
C16_Witness ==
    /\ ret.op = "DeleteExpired"
    /\ rt.phase = "swept2"
    /\ \E k \in Keys : wr[k].written /\ k \notin DOMAIN items
    /\ \A k \in DOMAIN items : ~(items[k].Expiration > 0 /\ items[k].Expiration < rt.t)

\* C20: once a Get of a key has returned found = false on an expired entry,
\* every Get of the key misses until a Set, a successful Add or a Load writes
\* the key: no Update, Inc, Delete, Count, Flush, Save or sweep brings it back
C20_ExpiryPermanent ==
    \A k \in Keys :
        wr[k].missed =>
            /\ ~get(items, k, now).ok
            /\ (ret.op = "Get" /\ ret.k = k) => ~ret.ok

\* a Get misses a key again that an earlier Get missed as expired and that a
\* sweep has removed since
C20_Witness ==
    /\ ret.op = "Get" /\ ~ret.ok
    /\ wr[ret.k].missed
    /\ wr[ret.k].written
    /\ ret.k \notin DOMAIN items

\* C17: while the sweeper has not been stopped, an entry that has expired is
\* removed after a while with no call of any caller (or written anew)
C17_SweeperRemoves ==
    \A k \in Keys :
        (k \in DOMAIN items /\ Expired(items[k], now) /\ gc # "exited")
            ~> (k \notin DOMAIN items \/ ~Expired(items[k], now) \/ gc = "exited")

\* C18: a StopGc called while the sweeper runs returns after a while with
\* the sweeper gone, and once the sweeper has gone nothing is swept
C18_StopGcStops ==
    /\ (pc[Stopper] = "StopGc" /\ gc # "exited")
          ~> (pc[Stopper] = "idle" /\ gc = "exited")
    /\ [][gc = "exited" => (gc' = "exited" /\ ~SweepStep)]_vars
    /\ [][ret'.op = "StopGc" => gc' = "exited"]_vars
====
